---- MODULE Spec2Model ----
(***************************************************************************)
(* A model of adbench/run.py: RunPipeline.__init__, dataset_filter,        *)
(* model_fit and run.  Ratios are written as integer percentages           *)
(* (0.01 -> 1, 1.00 -> 100); cell values are strings: "NaN" is numpy.nan,  *)
(* "None" is Python's None, "roc", "pr", "tfit", "tinf" stand for the      *)
(* numbers a successful model_fit returns.                                 *)
(***************************************************************************)
EXTENDS Integers, Sequences, FiniteSets, TLC

\* ---------------------------------------------------------------- bounds
\* how many labeling values of rla_list / nla_list are kept (first ones + last)
MaxLa == 2
\* how many seeds of seed_list are kept
MaxSeeds == 2
\* how many noise parameters of noise_params_list are kept
MaxNoise == 2
\* how many registered models of each model_dict are kept
MaxModels == 2
\* how many datasets generate_dataset_list() returns
MaxDatasets == 2
\* how many injected failures (generator, constructor, fit, predict, metric) a run sees
MaxFaults == 1

\* ---------------------------------------------------------------- helpers
Min(a, b) == IF a < b THEN a ELSE b

\* the first k elements of a list
Take(list, k) == SubSeq(list, 1, Min(k, Len(list)))

\* the first k-1 elements of a list followed by its last one
Shorten(list, k) ==
    IF k >= Len(list) THEN list
    ELSE SubSeq(list, 1, k - 1) \o <<list[Len(list)]>>

Range(s) == {s[k] : k \in 1..Len(s)}

\* ---------------------------------------------------------------- constructor
n_samples_threshold == 1000

Modes == {"rla", "nla", "other"}
Parallels == {"None", "unsupervise", "semi-supervise", "supervise", "other"}
NoiseTypes == {"None", "duplicated_anomalies", "irrelevant_features",
               "label_contamination", "other"}

\* self.rla_list (lines 52-55)
rla_list(noise_type) ==
    IF noise_type # "None" THEN <<100>>
    ELSE Shorten(<<0, 1, 5, 10, 25, 50, 75, 100>>, MaxLa)

\* self.nla_list (line 58)
nla_list == Shorten(<<0, 1, 5, 10, 25, 50, 75, 100>>, MaxLa)

\* self.seed_list (line 60)
seed_list == Take(<<1, 2, 3>>, MaxSeeds)

\* self.noise_params_list (lines 63-76); "raise" is NotImplementedError
noise_params_list(noise_type) ==
    IF noise_type = "None" THEN <<>>
    ELSE IF noise_type = "duplicated_anomalies" THEN Take(<<1, 2, 3, 4, 5, 6>>, MaxNoise)
    ELSE IF noise_type = "irrelevant_features" THEN Take(<<0, 1, 5, 10, 25, 50>>, MaxNoise)
    ELSE IF noise_type = "label_contamination" THEN Take(<<0, 1, 5, 10, 25, 50>>, MaxNoise)
    ELSE "raise"

\* the keys of self.model_dict in insertion order (lines 79-125)
model_dict(parallel) ==
    IF parallel = "unsupervise"
        THEN Take(<<"IForest", "OCSVM", "CBLOF", "COF", "COPOD", "ECOD", "HBOS", "KNN",
                    "LODA", "LOF", "PCA", "SOD", "DeepSVDD", "DAGMM">>, MaxModels)
    ELSE IF parallel = "semi-supervise"
        THEN Take(<<"GANomaly", "DeepSAD", "REPEN", "DevNet", "PReNet", "FEAWAD",
                    "XGBOD">>, MaxModels)
    ELSE IF parallel = "supervise"
        THEN Take(<<"NB", "SVM", "MLP", "RF", "LGB", "XGB", "CatB", "ResNet",
                    "FTTransformer">>, MaxModels)
    ELSE "raise"

\* does RunPipeline.__init__ raise? line 45 concatenates self.parallel (a
\* TypeError for None), line 76 and line 125 raise NotImplementedError
InitRaises(parallel, noise_type) ==
    \/ parallel = "None"
    \/ noise_params_list(noise_type) = "raise"
    \/ model_dict(parallel) = "raise"

\* ---------------------------------------------------------------- dataset_filter
\* what data_generator.generator(la=1.00, at_least_one_labeled=True) returns for
\* one dataset under one seed, as far as dataset_filter reads it:
\* size = len(y_train) + len(y_test), anom = sum(y_train)
DataOutcomes == [size : {999, 1000, 2000}, anom : {0, 1, 100}]

\* dataset_list_org: the identifiers generate_dataset_list() returns
dataset_list_org == Take(<<"d1", "d2", "d3", "d4">>, MaxDatasets)

\* FilterSeedBody with `add` set by every seed, so that the last seed decides
FilterSeedBodyLastWins(add, data, mode, generate_duplicates) ==
    IF ~generate_duplicates /\ data.size < n_samples_threshold THEN FALSE
    ELSE IF mode = "nla" /\ data.anom >= nla_list[Len(nla_list)] THEN TRUE
    ELSE IF mode = "rla" /\ data.anom > 0 THEN TRUE
    ELSE FALSE

\* the value of `add` after one pass of the seed loop body (lines 141-152)
FilterSeedBody(add, data, mode, generate_duplicates) ==
    IF ~generate_duplicates /\ data.size < n_samples_threshold THEN FALSE
    ELSE IF mode = "nla" /\ data.anom >= nla_list[Len(nla_list)] THEN add
    ELSE IF mode = "rla" /\ data.anom > 0 THEN add
    ELSE FALSE

\* ArgSorts without the sort: the order of appending
ArgSortsUnsorted(sizes) == {[k \in 1..Len(sizes) |-> k]}

\* numpy.argsort: the index orders that put the sizes in ascending order; the
\* default kind is not stable, so equal sizes may come out in either order
ArgSorts(sizes) ==
    {p \in [1..Len(sizes) -> 1..Len(sizes)] :
        /\ \A a, b \in 1..Len(sizes) : a # b => p[a] # p[b]
        /\ \A a \in 1..(Len(sizes) - 1) : sizes[p[a]] <= sizes[p[a + 1]]}

\* ---------------------------------------------------------------- the grid
\* [x + [y] for y in pool], for one x
ExtendOne(x, pool) == [k \in 1..Len(pool) |-> Append(x, pool[k])]

\* Comprehend with the loops exchanged: [x + [y] for y in pool for x in result]
ComprehendPoolFirst(result, pool) ==
    [k \in 1..(Len(result) * Len(pool)) |->
        Append(result[((k - 1) % Len(result)) + 1], pool[((k - 1) \div Len(result)) + 1])]

RECURSIVE Comprehend(_, _)
\* [x + [y] for x in result for y in pool]
Comprehend(result, pool) ==
    IF result = <<>> THEN <<>>
    ELSE ExtendOne(Head(result), pool) \o Comprehend(Tail(result), pool)

RECURSIVE ProductFrom(_, _)
ProductFrom(result, pools) ==
    IF pools = <<>> THEN result
    ELSE ProductFrom(Comprehend(result, Head(pools)), Tail(pools))

\* list(itertools.product(*pools))
product(pools) == ProductFrom(<< <<>> >>, pools)

\* experiment_params (lines 221-230)
ExperimentParams(mode, noise_type, datasets) ==
    IF mode = "nla"
    THEN IF noise_type # "None"
         THEN product(<<datasets, nla_list, noise_params_list(noise_type), seed_list>>)
         ELSE product(<<datasets, nla_list, seed_list>>)
    ELSE IF noise_type # "None"
         THEN product(<<datasets, rla_list(noise_type), noise_params_list(noise_type), seed_list>>)
         ELSE product(<<datasets, rla_list(noise_type), seed_list>>)

\* columns (line 237)
Columns(parallel, argClf) ==
    IF argClf = "None" THEN model_dict(parallel) ELSE <<"Customized">>

\* the labeling parameter of a trial (lines 245-248)
LaOf(params) == params[2]

\* ---------------------------------------------------------------- model_fit
\* What self.clf can hold: "class" is a class whose fit and predict_score are
\* instance methods (calling them on the class itself is a TypeError), "bound"
\* is an object on which fit and predict_score can be called as it is (an
\* instance, a class with class methods), "instance" is what the constructor
\* call returned, "deleted" is the attribute after `del self.clf`.
ClfArgs == {"None", "class", "bound"}

\* what the adapter does in one model_fit call: ctor is whether the constructor
\* call returns, step is the call of the second try block that raises
Outcomes == [ctor : BOOLEAN, step : {"ok", "fit", "predict", "metric"}]

NaNResult == [aucroc |-> "NaN", aucpr |-> "NaN"]

\* a local of model_fit that no assignment has reached
Unbound == [aucroc |-> "unbound", aucpr |-> "unbound"]

\* the first try block and its handler (lines 167-176)
TryInit(clf, o) == IF o.ctor THEN "instance" ELSE clf

\* the body of the second try block (lines 179-199): the locals, self.clf and
\* the Keras session when it ends, raised or not
TryFit(clf, session, o) ==
    IF clf \notin {"instance", "bound"}
    THEN [raised |-> TRUE, time_fit |-> "unbound", time_inference |-> "unbound",
          result |-> Unbound, clf |-> clf, session |-> session]
    ELSE IF o.step = "fit"
    THEN [raised |-> TRUE, time_fit |-> "unbound", time_inference |-> "unbound",
          result |-> Unbound, clf |-> clf, session |-> "held"]
    ELSE IF o.step = "predict"
    THEN [raised |-> TRUE, time_fit |-> "tfit", time_inference |-> "unbound",
          result |-> Unbound, clf |-> "instance", session |-> "held"]
    ELSE IF o.step = "metric"
    THEN [raised |-> TRUE, time_fit |-> "tfit", time_inference |-> "tinf",
          result |-> Unbound, clf |-> "instance", session |-> "held"]
    ELSE [raised |-> FALSE, time_fit |-> "tfit", time_inference |-> "tinf",
          result |-> [aucroc |-> "roc", aucpr |-> "pr"],
          clf |-> "deleted", session |-> "cleared"]

\* FitHandler without the reset of time_fit
FitHandlerKeepsFitTime(b) ==
    [b EXCEPT !.raised = FALSE, !.time_inference = "None", !.result = NaNResult]

\* the handler of the second try block (lines 201-205)
FitHandler(b) ==
    [b EXCEPT !.raised = FALSE, !.time_fit = "None", !.time_inference = "None",
              !.result = NaNResult]

\* model_fit (lines 166-207): what it returns and what it leaves behind; raised
\* says whether an exception leaves it
model_fit(clf, session, o) ==
    LET b == TryFit(TryInit(clf, o), IF o.ctor THEN "held" ELSE session, o)
    IN  IF b.raised THEN FitHandler(b) ELSE b

\* how many of the adapter's calls raise by themselves in an outcome
FaultsOf(o) == (IF o.ctor THEN 0 ELSE 1) + (IF o.step = "ok" THEN 0 ELSE 1)

\* ---------------------------------------------------------------- the tables
TableNames == {"AUCROC", "AUCPR", "Time(fit)", "Time(inference)"}

\* pd.DataFrame(data=None, index=experiment_params, columns=columns): all NaN
EmptyTable(n, columns) == [c \in (1..n) \X Range(columns) |-> "NaN"]

\* the value stored in table t for a model_fit return value r (lines 291-294)
StoredValue(t, r) ==
    IF t = "AUCROC" THEN r.result.aucroc
    ELSE IF t = "AUCPR" THEN r.result.aucpr
    ELSE IF t = "Time(fit)" THEN r.time_fit
    ELSE r.time_inference

\* DataFrame.to_csv writes a missing value (NaN, None) as the empty string
CsvCell(v) == IF v \in {"NaN", "None"} THEN "" ELSE v

to_csv(df) == [c \in DOMAIN df |-> CsvCell(df[c])]

\* the order in which run writes the four files (lines 296-303)
TableOrder == <<"AUCROC", "AUCPR", "Time(fit)", "Time(inference)">>

\* RecordCell with the row fixed: df[model_name].iloc[0]
RecordCellFirstRow(i_, model_name) == <<1, model_name>>

\* the cell `df[model_name].iloc[i]` (lines 291-294)
RecordCell(i_, model_name) == <<i_, model_name>>

\* the admissibility policy for one split, as the documentation states it
PolicyOK(d, mode_, generate_duplicates_) ==
    /\ mode_ \in {"nla", "rla"}
    /\ ~generate_duplicates_ => d.size >= n_samples_threshold
    /\ mode_ = "nla" => \A k \in 1..Len(nla_list) : d.anom >= nla_list[k]
    /\ mode_ = "rla" => d.anom > 0

\* ---------------------------------------------------------------- state
VARIABLES
    cfg,               \* the constructor's and run's arguments
    pc,                \* where the program is
    di, si, add, data, \* dataset_filter: dataset index, seed index, add, data
    dataset_list,      \* dataset_filter's and run's dataset_list
    dataset_size,      \* dataset_filter's dataset_size
    policy,            \* history: per dataset, PolicyOK of each split generated for it
    sizeOf,            \* history: per admitted dataset, the size appended for it
    experiment_params, \* run's experiment_params
    df,                \* the four DataFrames, by table name
    csv,               \* the four files, by table name; <<>> is no file
    results,           \* run's results
    i, mi, wi,         \* run: trial index, column index, file index
    ret,               \* what the last model_fit call returned
    self_clf,          \* self.clf
    self_data,         \* the trial self.data was generated for (0: none)
    session,           \* the Keras session: "cleared" or "held"
    calls,             \* history: the model_fit calls, <<trial index, model name>>
    last,              \* history: the object and the outcome of the last model_fit call
    genOK, genFailed,  \* history: trials whose generator call returned / raised
    skipped,           \* history: trials left by the `continue` of line 251
    faults             \* history: failures injected so far

cfgVars == <<cfg>>
filterVars == <<di, si, add, data, dataset_size, policy, sizeOf>>
tableVars == <<experiment_params, df, csv, results>>
fitVars == <<ret, self_clf, session, calls, last>>
histVars == <<genOK, genFailed, skipped>>
vars == <<cfg, pc, di, si, add, data, dataset_list, dataset_size, policy, sizeOf,
          experiment_params, df, csv, results, i, mi, wi, ret, self_clf, self_data,
          session, calls, last, genOK, genFailed, skipped, faults>>

NoData == [size |-> 0, anom |-> 0]
NoRet == [raised |-> FALSE, time_fit |-> "unbound", time_inference |-> "unbound",
          result |-> Unbound, clf |-> "unset", session |-> "cleared"]
NoLast == [clf |-> "unset", o |-> [ctor |-> TRUE, step |-> "ok"]]

Configs == [mode : Modes, parallel : Parallels, noise_type : NoiseTypes,
            generate_duplicates : BOOLEAN, dataset : {"None", "custom"},
            clf : ClfArgs]

\* everything but cfg and pc, before anything ran
Blank ==
    /\ di = 1 /\ si = 1 /\ add = TRUE /\ data = NoData
    /\ dataset_list = <<>> /\ dataset_size = <<>>
    /\ policy = [d \in Range(dataset_list_org) |-> <<>>]
    /\ sizeOf = [d \in Range(dataset_list_org) |-> 0]
    /\ experiment_params = <<>>
    /\ df = [t \in TableNames |-> <<>>]
    /\ csv = [t \in TableNames |-> <<>>]
    /\ results = <<>>
    /\ i = 1 /\ mi = 1 /\ wi = 1
    /\ ret = NoRet /\ self_clf = "unset" /\ self_data = 0 /\ session = "cleared"
    /\ calls = <<>> /\ last = NoLast
    /\ genOK = {} /\ genFailed = {} /\ skipped = {}
    /\ faults = 0

\* the arguments of a run; generate_duplicates is left at its default (line 17),
\* only dataset_filter reads it and SpecFilter draws both values
Init ==
    /\ cfg \in {c \in Configs : c.generate_duplicates}
    /\ pc = "new"
    /\ Blank

\* ---------------------------------------------------------------- __init__
\* RunPipeline.__init__ (lines 16-125)
Construct ==
    /\ pc = "new"
    /\ pc' = IF InitRaises(cfg.parallel, cfg.noise_type) THEN "init_raised"
             ELSE "constructed"
    /\ UNCHANGED <<cfgVars, filterVars, dataset_list, tableVars, i, mi, wi, fitVars,
                   self_data, histVars, faults>>

\* ---------------------------------------------------------------- run, its head
\* run(dataset, clf), lines 210-218: dataset_filter is entered (lines 130-135)
\* or dataset_list is [None]
Dispatch ==
    /\ pc = "constructed"
    /\ IF cfg.dataset = "None"
       THEN /\ pc' = IF dataset_list_org = <<>> THEN "filter_sort" ELSE "filter_seed"
            /\ dataset_list' = <<>>
       ELSE /\ pc' = "grid"
            /\ dataset_list' = <<"None">>
    /\ UNCHANGED <<cfgVars, filterVars, tableVars, i, mi, wi, fitVars, self_data,
                   histVars, faults>>

\* ---------------------------------------------------------------- dataset_filter
\* one pass of the seed loop (lines 136-152): the generator returns a split
FilterSeed ==
    /\ pc = "filter_seed"
    /\ \E d \in DataOutcomes :
        /\ data' = d
        /\ add' = FilterSeedBody(add, d, cfg.mode, cfg.generate_duplicates)
        /\ policy' = [policy EXCEPT ![dataset_list_org[di]] =
                         Append(@, PolicyOK(d, cfg.mode, cfg.generate_duplicates))]
    /\ IF si < Len(seed_list)
       THEN si' = si + 1 /\ pc' = "filter_seed"
       ELSE si' = si /\ pc' = "filter_add"
    /\ UNCHANGED <<cfgVars, di, dataset_list, dataset_size, sizeOf, tableVars, i, mi, wi,
                   fitVars, self_data, histVars, faults>>

\* the generator raises inside dataset_filter (line 139, no try around it)
FilterGeneratorRaises ==
    /\ pc = "filter_seed"
    /\ faults < MaxFaults
    /\ faults' = faults + 1
    /\ pc' = "filter_raised"
    /\ UNCHANGED <<cfgVars, filterVars, dataset_list, tableVars, i, mi, wi, fitVars,
                   self_data, histVars>>

\* after the seed loop (lines 154-158), and the head of the next pass of the
\* dataset loop (lines 134-135)
FilterAdd ==
    /\ pc = "filter_add"
    /\ IF add
       THEN /\ dataset_list' = Append(dataset_list, dataset_list_org[di])
            /\ dataset_size' = Append(dataset_size, data.size)
            /\ sizeOf' = [sizeOf EXCEPT ![dataset_list_org[di]] = data.size]
       ELSE UNCHANGED <<dataset_list, dataset_size, sizeOf>>
    /\ di' = di + 1
    /\ si' = 1
    /\ add' = TRUE
    /\ pc' = IF di < Len(dataset_list_org) THEN "filter_seed" ELSE "filter_sort"
    /\ UNCHANGED <<cfgVars, data, policy, tableVars, i, mi, wi, fitVars, self_data,
                   histVars, faults>>

\* the sort and the return (lines 161-163, back in run at line 213)
FilterSort ==
    /\ pc = "filter_sort"
    /\ \E p \in ArgSorts(dataset_size) :
        dataset_list' = [k \in 1..Len(dataset_size) |-> dataset_list[p[k]]]
    /\ pc' = "grid"
    /\ UNCHANGED <<cfgVars, filterVars, tableVars, i, mi, wi, fitVars, self_data,
                   histVars, faults>>

\* ---------------------------------------------------------------- run, the grid
columns == Columns(cfg.parallel, cfg.clf)

\* experiment_params, the four empty tables and results (lines 221-243); the
\* locals of dataset_filter are gone
BuildGrid ==
    /\ pc = "grid"
    /\ experiment_params' = ExperimentParams(cfg.mode, cfg.noise_type, dataset_list)
    /\ df' = [t \in TableNames |-> EmptyTable(Len(experiment_params'), columns)]
    /\ csv' = [t \in TableNames |-> <<>>]
    /\ results' = <<>>
    /\ i' = 1
    /\ di' = 1 /\ si' = 1 /\ add' = TRUE /\ data' = NoData /\ dataset_size' = <<>>
    /\ policy' = [d \in Range(dataset_list_org) |-> <<>>]
    /\ sizeOf' = [d \in Range(dataset_list_org) |-> 0]
    /\ pc' = "trial"
    /\ UNCHANGED <<cfgVars, dataset_list, mi, wi, fitVars, self_data, histVars, faults>>

\* ---------------------------------------------------------------- run, the loop
\* SkipRule without the test of self.parallel
SkipRuleAnyTrack(parallel, la, noise_type) ==
    la # 0 /\ noise_type = "None"

\* SkipRule without the test of self.noise_type
SkipRuleIgnoresNoise(parallel, la, noise_type) ==
    parallel = "unsupervise" /\ la # 0

\* the test of line 250
SkipRule(parallel, la, noise_type) ==
    parallel = "unsupervise" /\ la # 0 /\ noise_type = "None"

\* the loop is over (line 328)
Return ==
    /\ pc = "trial"
    /\ i > Len(experiment_params)
    /\ pc' = "done"
    /\ UNCHANGED <<cfgVars, filterVars, dataset_list, tableVars, i, mi, wi, fitVars,
                   self_data, histVars, faults>>

\* lines 244-251: the trial is left before its data is generated
Skip ==
    /\ pc = "trial"
    /\ i <= Len(experiment_params)
    /\ SkipRule(cfg.parallel, LaOf(experiment_params[i]), cfg.noise_type)
    /\ skipped' = skipped \cup {i}
    /\ i' = i + 1
    /\ UNCHANGED <<cfgVars, pc, filterVars, dataset_list, tableVars, mi, wi, fitVars,
                   self_data, genOK, genFailed, faults>>

\* lines 244-272: the generator returns the trial's split
Generate ==
    /\ pc = "trial"
    /\ i <= Len(experiment_params)
    /\ ~SkipRule(cfg.parallel, LaOf(experiment_params[i]), cfg.noise_type)
    /\ self_data' = i
    /\ genOK' = genOK \cup {i}
    /\ mi' = 1
    /\ pc' = "fit"
    /\ UNCHANGED <<cfgVars, filterVars, dataset_list, tableVars, i, wi, fitVars,
                   genFailed, skipped, faults>>

\* GenerateFail with a handler that does not `continue`: the models are fitted
\* on the split self.data still holds
GenerateFailFallsThrough ==
    /\ pc = "trial"
    /\ i <= Len(experiment_params)
    /\ ~SkipRule(cfg.parallel, LaOf(experiment_params[i]), cfg.noise_type)
    /\ faults < MaxFaults
    /\ faults' = faults + 1
    /\ genFailed' = genFailed \cup {i}
    /\ mi' = 1
    /\ pc' = "fit"
    /\ UNCHANGED <<cfgVars, filterVars, dataset_list, tableVars, i, wi, fitVars,
                   self_data, genOK, skipped>>

\* lines 244-277: the generator raises, the handler continues with the next trial
GenerateFail ==
    /\ pc = "trial"
    /\ i <= Len(experiment_params)
    /\ ~SkipRule(cfg.parallel, LaOf(experiment_params[i]), cfg.noise_type)
    /\ faults < MaxFaults
    /\ faults' = faults + 1
    /\ genFailed' = genFailed \cup {i}
    /\ i' = i + 1
    /\ UNCHANGED <<cfgVars, pc, filterVars, dataset_list, tableVars, mi, wi, fitVars,
                   self_data, genOK, skipped>>

\* the object run puts in self.clf before model_fit (lines 282, 306): a class
\* of the registry, or the caller's clf
ClfFor(argClf) == IF argClf = "None" THEN "class" ELSE argClf

\* lines 280-285 and 306-308: self.model_name, self.clf, and the model_fit call
ModelFitCall ==
    /\ pc = "fit"
    /\ \E o \in Outcomes :
        /\ faults + FaultsOf(o) <= MaxFaults
        /\ faults' = faults + FaultsOf(o)
        /\ LET r == model_fit(ClfFor(cfg.clf), session, o)
           IN  /\ ret' = r
               /\ self_clf' = r.clf
               /\ session' = r.session
               /\ pc' = IF r.raised THEN "fit_raised" ELSE "record"
        /\ last' = [clf |-> ClfFor(cfg.clf), o |-> o]
    /\ calls' = Append(calls, <<i, columns[mi]>>)
    /\ UNCHANGED <<cfgVars, filterVars, dataset_list, tableVars, i, mi, wi, self_data,
                   histVars>>

\* Record with the assignment made to the whole column: df[model_name] = v
RecordWholeColumn ==
    /\ pc = "record"
    /\ results' = Append(results, [params |-> experiment_params[i],
                                   model_name |-> columns[mi],
                                   metrics |-> ret.result,
                                   time_fit |-> ret.time_fit,
                                   time_inference |-> ret.time_inference])
    /\ df' = [t \in TableNames |->
                [c \in DOMAIN df[t] |->
                    IF c[2] = columns[mi] THEN StoredValue(t, ret) ELSE df[t][c]]]
    /\ wi' = 1
    /\ pc' = "persist"
    /\ UNCHANGED <<cfgVars, filterVars, dataset_list, experiment_params, csv, i, mi,
                   fitVars, self_data, histVars, faults>>

\* lines 286-294 and 309-317: results.append and the four cell assignments; the
\* chained assignment df[model_name].iloc[i] = v writes into the DataFrame, as
\* it does in pandas without copy-on-write
Record ==
    /\ pc = "record"
    /\ results' = Append(results, [params |-> experiment_params[i],
                                   model_name |-> columns[mi],
                                   metrics |-> ret.result,
                                   time_fit |-> ret.time_fit,
                                   time_inference |-> ret.time_inference])
    /\ df' = [t \in TableNames |->
                [df[t] EXCEPT ![RecordCell(i, columns[mi])] = StoredValue(t, ret)]]
    /\ wi' = 1
    /\ pc' = "persist"
    /\ UNCHANGED <<cfgVars, filterVars, dataset_list, experiment_params, csv, i, mi,
                   fitVars, self_data, histVars, faults>>

\* PersistNow with the to_csv calls after the loop over the models, once a trial
PersistNowAfterLastModel(w, m) == cfg.clf # "None" \/ m = Len(columns)

\* is the to_csv call for file w made now, with the program between the calls
\* of lines 296-303 (319-326) for the column at index m?
PersistNow(w, m) == TRUE

\* one of the four to_csv calls (lines 296-303 and 319-326), each taken as one
\* overwrite of the whole file; after the last one, the next model of the
\* trial or the next trial
Persist ==
    /\ pc = "persist"
    /\ csv' = IF PersistNow(wi, mi)
              THEN [csv EXCEPT ![TableOrder[wi]] = to_csv(df[TableOrder[wi]])]
              ELSE csv
    /\ IF wi < Len(TableOrder)
       THEN wi' = wi + 1 /\ UNCHANGED <<pc, i, mi>>
       ELSE /\ wi' = 1
            /\ IF cfg.clf = "None" /\ mi < Len(columns)
               THEN mi' = mi + 1 /\ pc' = "fit" /\ i' = i
               ELSE mi' = mi /\ pc' = "trial" /\ i' = i + 1
    /\ UNCHANGED <<cfgVars, filterVars, dataset_list, experiment_params, df, results,
                   fitVars, self_data, histVars, faults>>

\* ---------------------------------------------------------------- specifications
NextFilter == FilterSeed \/ FilterGeneratorRaises \/ FilterAdd \/ FilterSort

NextGrid == Construct \/ Dispatch \/ NextFilter \/ BuildGrid

Next ==
    \/ NextGrid
    \/ Return \/ Skip \/ Generate \/ GenerateFail
    \/ ModelFitCall \/ Record \/ Persist

\* construction and run, from the arguments on
Spec == Init /\ [][Next]_vars

\* construction and run up to the grid
SpecGrid == Init /\ [][NextGrid]_vars

\* dataset_filter alone, entered by run(dataset=None) on a constructed pipeline;
\* it reads mode and generate_duplicates only
InitFilter ==
    /\ cfg \in {c \in Configs : /\ c.parallel = "unsupervise" /\ c.noise_type = "None"
                                /\ c.dataset = "None" /\ c.clf = "None"}
    /\ pc = "filter_seed"
    /\ Blank

SpecFilter == InitFilter /\ [][NextFilter]_vars

\* ---------------------------------------------------------------- claims
RetNull(r) ==
    r.time_fit = "None" /\ r.time_inference = "None" /\ r.result = NaNResult

\* C1: model_fit lets no exception reach run: whenever the adapter's fit,
\* predict_score or the metric computation raises, it returns time_fit None,
\* time_inference None and NaN metrics (also when fit had succeeded), and every
\* call is followed by its results entry, so the loop goes on.
C1_ModelFitNeverRaises ==
    /\ pc # "fit_raised"
    /\ pc = "record" /\ last.o.step # "ok" => RetNull(ret)
    /\ pc \in {"persist", "fit", "trial", "done"} => Len(results) = Len(calls)

\* a call whose constructor and fit succeeded and whose predict_score raised
C1_Witness ==
    /\ pc = "persist"
    /\ last.o.ctor /\ last.o.step = "predict"
    /\ results[Len(results)].time_fit = "None"

GridBuilt ==
    pc \in {"trial", "fit", "fit_raised", "record", "persist", "done"}

\* the labeling-value list run uses (lines 221-230)
LabelingList == IF cfg.mode = "nla" THEN nla_list ELSE rla_list(cfg.noise_type)

\* C2: experiment_params is the Cartesian product of dataset_list, the labeling
\* list, the noise list (when a noise kind is set) and seed_list, dataset
\* outermost and seed innermost: its length is the product of the lengths, the
\* element at each position is the one the nesting order puts there, and no
\* combination appears twice.
C2_GridIsProduct ==
    GridBuilt =>
        LET D == dataset_list
            L == LabelingList
            N == noise_params_list(cfg.noise_type)
            S == seed_list
            ep == experiment_params
        IN  /\ IF cfg.noise_type = "None"
               THEN /\ Len(ep) = Len(D) * Len(L) * Len(S)
                    /\ \A k \in 1..Len(ep) :
                           ep[k] = << D[((k - 1) \div (Len(L) * Len(S))) + 1],
                                      L[(((k - 1) \div Len(S)) % Len(L)) + 1],
                                      S[((k - 1) % Len(S)) + 1] >>
               ELSE /\ Len(ep) = Len(D) * Len(L) * Len(N) * Len(S)
                    /\ \A k \in 1..Len(ep) :
                           ep[k] = << D[((k - 1) \div (Len(L) * Len(N) * Len(S))) + 1],
                                      L[(((k - 1) \div (Len(N) * Len(S))) % Len(L)) + 1],
                                      N[(((k - 1) \div Len(S)) % Len(N)) + 1],
                                      S[((k - 1) % Len(S)) + 1] >>
            /\ \A a, b \in 1..Len(ep) : a # b => ep[a] # ep[b]

\* a grid over two filtered datasets, several labeling values and a noise list
C2_Witness ==
    /\ pc = "trial"
    /\ Len(dataset_list) >= 2
    /\ cfg.mode = "nla" /\ cfg.noise_type = "duplicated_anomalies"
    /\ Len(experiment_params) >= 2 * Len(dataset_list) * Len(seed_list)

\* C3: every dataset in dataset_filter's list had a split generated under each
\* seed of seed_list, and each of these splits satisfies the admissibility
\* policy: a failure under one seed is never cancelled by a later seed.
C3_AdmittedUnderEverySeed ==
    \A k \in 1..Len(dataset_list) :
        dataset_list[k] \in Range(dataset_list_org) =>
            /\ Len(policy[dataset_list[k]]) = Len(seed_list)
            /\ \A n \in 1..Len(seed_list) : policy[dataset_list[k]][n]

\* the filter returned a list, having removed a dataset that failed under the
\* first seed and passed under the last
C3_Witness ==
    /\ pc = "grid"
    /\ dataset_list # <<>>
    /\ \E d \in Range(dataset_list_org) :
        /\ d \notin Range(dataset_list)
        /\ Len(policy[d]) = Len(seed_list)
        /\ ~policy[d][1]
        /\ policy[d][Len(seed_list)]

\* C9: the list dataset_filter returns holds exactly the admitted datasets, each
\* once, in ascending order of the sample count appended for them (the combined
\* train+test count of the split of the last seed).
C9_FilterSortedBySize ==
    pc = "grid" /\ cfg.dataset = "None" =>
        /\ Range(dataset_list) =
              {d \in Range(dataset_list_org) :
                  /\ Len(policy[d]) = Len(seed_list)
                  /\ \A n \in 1..Len(seed_list) : policy[d][n]}
        /\ \A a, b \in 1..Len(dataset_list) : a # b => dataset_list[a] # dataset_list[b]
        /\ \A a, b \in 1..Len(dataset_list) :
              a < b => sizeOf[dataset_list[a]] <= sizeOf[dataset_list[b]]

\* two admitted datasets, the larger one appended first
C9_Witness ==
    /\ pc = "grid"
    /\ Len(dataset_list) >= 2
    /\ dataset_list[1] = "d2" /\ dataset_list[2] = "d1"
    /\ sizeOf["d2"] < sizeOf["d1"]

\* the value of a results entry that goes to table t
EntryValue(t, e) ==
    IF t = "AUCROC" THEN e.metrics.aucroc
    ELSE IF t = "AUCPR" THEN e.metrics.aucpr
    ELSE IF t = "Time(fit)" THEN e.time_fit
    ELSE e.time_inference

\* C4: when the next model_fit call or the next trial begins, each of the four
\* files holds its whole table; and at every point of the run each file holds
\* the results of every model_fit call but, at most, the one in progress.
C4_PersistedAfterEveryCall ==
    GridBuilt =>
        /\ pc \in {"fit", "trial", "done"} /\ results # <<>> =>
              \A t \in TableNames : csv[t] = to_csv(df[t])
        /\ \A t \in TableNames : \A k \in 1..Len(results) :
              (k < Len(results) \/ pc # "persist") =>
                  /\ csv[t] # <<>>
                  /\ csv[t][calls[k]] = CsvCell(EntryValue(t, results[k]))

\* between two models of one trial, the first model's result is in the files
C4_Witness ==
    /\ pc = "fit" /\ mi = 2
    /\ \A t \in TableNames : csv[t] # <<>>
    /\ csv["AUCROC"][<<i, columns[1]>>] = "roc"
    /\ csv["Time(inference)"][<<i, columns[1]>>] = "tinf"

NonEmptyCells(table) == {c \in DOMAIN table : table[c] \notin {"NaN", "None"}}

\* C5 as stated: after N pairs, exactly N cells of each table are non-empty,
\* whether the pairs succeeded or failed.
C5_Original ==
    GridBuilt => \A t \in TableNames : Cardinality(NonEmptyCells(df[t])) = Len(results)

\* C5, amended: after N pairs, N distinct cells of each table have been
\* assigned, one per pair, and the non-empty cells are those of the pairs whose
\* value for the table is not null: a failed pair's cells stay empty.
C5_FilledCells ==
    GridBuilt =>
        /\ Cardinality({calls[k] : k \in 1..Len(results)}) = Len(results)
        /\ \A t \in TableNames :
              NonEmptyCells(df[t]) =
                  {calls[k] : k \in {n \in 1..Len(results) :
                                        EntryValue(t, results[n]) \notin {"NaN", "None"}}}

\* a finished run with a failed pair and a successful one
C5_Witness ==
    /\ pc = "done"
    /\ \E a, b \in 1..Len(results) :
        /\ results[a].metrics = NaNResult /\ results[a].time_fit = "None"
        /\ results[b].metrics.aucroc = "roc"
    /\ Cardinality(NonEmptyCells(df["AUCROC"])) = Len(results) - 1

\* C6: a trial whose generator call raised is left at once: no model_fit call,
\* no results entry, no cell of its row written in the tables or in the files,
\* and the loop is at a later trial; a finished run has visited every trial.
C6_GeneratorFailureSkipsTrial ==
    /\ \A j \in genFailed :
        /\ i > j
        /\ pc \in {"trial", "fit", "record", "persist", "done"}
        /\ \A k \in 1..Len(calls) : calls[k][1] # j
        /\ \A k \in 1..Len(results) : results[k].params # experiment_params[j]
        /\ self_data # j
        /\ \A t \in TableNames : \A m \in 1..Len(columns) :
              /\ df[t][<<j, columns[m]>>] = "NaN"
              /\ csv[t] # <<>> => csv[t][<<j, columns[m]>>] = ""
    /\ pc = "done" => genOK \cup genFailed \cup skipped = 1..Len(experiment_params)

\* the generator raised for a trial and a later trial was fitted and stored
C6_Witness ==
    /\ pc = "done"
    /\ \E j \in genFailed : \E k \in 1..Len(calls) : calls[k][1] > j
    /\ results # <<>>

\* C7 as stated: no unrecognized labeling mode, noise kind or parallel track
\* lets construction and run complete normally.
C7_UnknownValueRaises ==
    (\/ cfg.mode \notin {"rla", "nla"}
     \/ cfg.noise_type \notin {"None", "duplicated_anomalies", "irrelevant_features",
                               "label_contamination"}
     \/ cfg.parallel \notin {"unsupervise", "semi-supervise", "supervise"})
        => pc # "done"

\* C8 as stated: whenever the constructor call raises, model_fit returns both
\* times None and NaN metrics, whatever self.clf holds.
C8_CtorFailureIsNull ==
    pc = "record" /\ ~last.o.ctor => RetNull(ret)

RECURSIVE CallsFrom(_, _, _)
\* for each trial from k on that is in `trials`, in grid order, one call per
\* column, in the order of the columns
CallsFrom(k, trials, cols) ==
    IF k > Len(experiment_params) THEN <<>>
    ELSE (IF k \in trials THEN [m \in 1..Len(cols) |-> <<k, cols[m]>>] ELSE <<>>)
         \o CallsFrom(k + 1, trials, cols)

\* C10 as stated: the calls are, for each trial in grid order whose data
\* generation did not fail, one call per registered model in registry order.
C10_Original ==
    pc = "done" =>
        calls = CallsFrom(1, (1..Len(experiment_params)) \ genFailed,
                          model_dict(cfg.parallel))

\* C10, amended: the calls are, in grid order, for each trial that line 250
\* does not skip (parallel = 'unsupervise', no noise kind, labeling parameter
\* not 0) and whose data generation succeeded, one call per registered model in
\* registry order, or one call for 'Customized' when run was given a clf; the
\* trial index never decreases along the calls.
C10_CallSequence ==
    /\ pc = "done" =>
        /\ calls = CallsFrom(1,
                     {k \in 1..Len(experiment_params) :
                         ~(/\ cfg.parallel = "unsupervise"
                           /\ experiment_params[k][2] # 0
                           /\ cfg.noise_type = "None")} \ genFailed,
                     IF cfg.clf = "None" THEN model_dict(cfg.parallel)
                     ELSE <<"Customized">>)
        /\ genOK = {calls[k][1] : k \in 1..Len(calls)}
    /\ \A a, b \in 1..Len(calls) : a < b => calls[a][1] <= calls[b][1]

\* a finished run of the unsupervised track that skipped trials, lost one to
\* the generator and fitted the others
C10_Witness ==
    /\ pc = "done"
    /\ cfg.clf = "None"
    /\ skipped # {} /\ genFailed # {}
    /\ Len(calls) >= 2

\* C11 as stated: when a noise kind is configured, the labeling parameter of
\* every trial of the grid is the ratio 1.00 and the labeling dimension has
\* size one, whatever the rest of the configuration.
C11_NoiseLabelingIsOne ==
    GridBuilt /\ cfg.noise_type # "None" =>
        /\ \A k \in 1..Len(experiment_params) : LaOf(experiment_params[k]) = 100
        /\ Len(experiment_params) =
              Len(dataset_list) * Len(noise_params_list(cfg.noise_type)) * Len(seed_list)

\* C12 as stated: whenever model_fit has returned, with a result or with the
\* null result, the Keras session is cleared and no adapter instance is left
\* in self.clf.
C12_ReleasedOnReturn ==
    pc = "record" => session = "cleared" /\ self_clf # "instance"

\* one step of the run after the grid is built, seen from the tables: only the
\* step that records a pair touches them, and it touches that pair's cell
C13_Step ==
    GridBuilt /\ GridBuilt' =>
        IF pc = "record"
        THEN /\ RecordCell(i, columns[mi]) \notin {calls[k] : k \in 1..Len(results)}
             /\ \A t \in TableNames :
                   /\ DOMAIN df'[t] = DOMAIN df[t]
                   /\ \A c \in DOMAIN df[t] :
                         c # RecordCell(i, columns[mi]) => df'[t][c] = df[t][c]
        ELSE df' = df

\* C13: during a run each (trial, model) cell of the four tables is assigned
\* at most once, the assignment for one pair leaves every other cell as it
\* was, and the values recorded for a pair stay in its cells whatever the
\* later pairs do, failures included.
C13_WriteOnce ==
    /\ [](GridBuilt =>
            /\ \A a, b \in 1..Len(calls) : calls[a] = calls[b] => a = b
            /\ \A t \in TableNames : \A k \in 1..Len(results) :
                  df[t][calls[k]] = EntryValue(t, results[k]))
    /\ [][C13_Step]_vars

\* a finished run in which a pair of a later trial failed after a pair of an
\* earlier trial succeeded, the earlier pair's cells holding its values
C13_Witness ==
    /\ pc = "done"
    /\ \E a, b \in 1..Len(results) :
          /\ calls[a][1] < calls[b][1]
          /\ results[a].metrics # NaNResult
          /\ results[b].metrics = NaNResult /\ results[b].time_fit = "None"
          /\ df["AUCROC"][calls[a]] = "roc"
          /\ df["Time(fit)"][calls[a]] = "tfit"
          /\ df["AUCROC"][calls[b]] = "NaN"

\* the unsupervised track without a noise kind
UnsupervisedNoNoise == cfg.parallel = "unsupervise" /\ cfg.noise_type = "None"

\* the trials the loop has passed
Passed == {j \in 1..Len(experiment_params) : j < i}

\* the step that skips a trial leaves the tables, the files, the results, the
\* calls and the generated split as they were
C14_Step ==
    skipped' # skipped =>
        /\ UNCHANGED <<df, csv, results, calls, self_data, genOK, genFailed>>
        /\ pc = "trial" /\ pc' = "trial"

\* C14: with parallel = 'unsupervise' and no noise kind, run skips, before the
\* data is generated, exactly the trials whose labeling parameter is not 0 and
\* goes on with the others; a skipped trial has no generator call, no model_fit
\* call, no results entry and no file written for it, and its row is in the
\* tables and in every file written, all cells empty.  On another track, or
\* with a noise kind, no trial is skipped.
C14_UnsupervisedSkipsLabeled ==
    /\ [](GridBuilt =>
            /\ UnsupervisedNoNoise =>
                  /\ skipped = {j \in Passed : LaOf(experiment_params[j]) # 0}
                  /\ genOK \cup genFailed =
                        {j \in Passed : LaOf(experiment_params[j]) = 0}
                        \cup (IF pc \in {"fit", "record", "persist"} THEN {i} ELSE {})
                  /\ \A k \in 1..Len(calls) :
                        LaOf(experiment_params[calls[k][1]]) = 0
            /\ ~UnsupervisedNoNoise => skipped = {}
            /\ \A j \in skipped :
                  /\ j \notin genOK \cup genFailed
                  /\ self_data # j
                  /\ \A k \in 1..Len(calls) : calls[k][1] # j
                  /\ \A k \in 1..Len(results) :
                        results[k].params # experiment_params[j]
                  /\ \A t \in TableNames :
                        /\ \E c \in DOMAIN df[t] : c[1] = j
                        /\ \A c \in DOMAIN df[t] : c[1] = j => df[t][c] = "NaN"
                        /\ csv[t] # <<>> =>
                              /\ DOMAIN csv[t] = DOMAIN df[t]
                              /\ \A c \in DOMAIN csv[t] : c[1] = j => csv[t][c] = "")
    /\ [][C14_Step]_vars

\* a finished unsupervised run without noise: a trial with labeling parameter
\* 0 was fitted and persisted, one with another labeling parameter was
\* skipped, and the skipped trial's row is in the files with empty cells
C14_Witness ==
    /\ pc = "done"
    /\ UnsupervisedNoNoise
    /\ \E j \in skipped, k \in 1..Len(calls) :
          /\ LaOf(experiment_params[j]) # 0
          /\ LaOf(experiment_params[calls[k][1]]) = 0
          /\ \A t \in TableNames :
                /\ csv[t] # <<>>
                /\ \E c \in DOMAIN csv[t] : c[1] = j
                /\ \A c \in DOMAIN csv[t] : c[1] = j => csv[t][c] = ""
          /\ csv["AUCROC"][calls[k]] = "roc"
====
